---- MODULE Spec2Model ----
(***************************************************************************)
(* Model of the rag-rbac service: the chunker, the ingestion and retrieval *)
(* orchestrators of app/rag.py, the HTTP handlers of app/main.py, the      *)
(* user/document tables of app/database.py and the bearer tokens of        *)
(* app/auth.py.                                                            *)
(*                                                                         *)
(* Text is a sequence of characters over a four-letter alphabet:           *)
(*   "a"  an ordinary character, "sp" a blank, "nl" a newline,             *)
(*   "rep" U+FFFD, what a lossy UTF-8 decode puts for an invalid byte.     *)
(* Bytes are "a", "sp", "nl" and "bad" (an invalid UTF-8 byte).            *)
(***************************************************************************)
EXTENDS Integers, Sequences, FiniteSets, TLC

\* ---------------------------------------------------------------- constants
CHUNK_SIZE == 500
CHUNK_OVERLAP == 50
TOP_K == 5
BATCH_SIZE == 100
COLLECTION == "documents"

\* ------------------------------------------------------------------- bounds
MaxTextLen == 510

\* ------------------------------------------------------------ text helpers
Min(a, b) == IF a < b THEN a ELSE b

Rep(c, n) == [i \in 1..n |-> c]

\* Python's str.isspace / the regex class \s
IsSpace(c) == c \in {"sp", "nl"}

\* Python's text[start:end] for 0 <= start, 0 <= end
Slice(text, start, end) == SubSeq(text, start + 1, Min(end, Len(text)))

\* Python's str.strip(): lo is the first and hi the last non-whitespace position
RECURSIVE FirstNonSpace(_, _)
FirstNonSpace(text, i) ==
  IF i > Len(text) \/ ~IsSpace(text[i]) THEN i ELSE FirstNonSpace(text, i + 1)

RECURSIVE LastNonSpace(_, _)
LastNonSpace(text, i) ==
  IF i < 1 \/ ~IsSpace(text[i]) THEN i ELSE LastNonSpace(text, i - 1)

strip(text) == SubSeq(text, FirstNonSpace(text, 1), LastNonSpace(text, Len(text)))

\* re.sub(r'\s+', ' ', text): every maximal run of whitespace becomes one
\* blank. CollapseRange gives the output contributed by positions lo..hi; a
\* range without whitespace is copied as it is.
RECURSIVE CollapseRange(_, _, _)
CollapseRange(text, lo, hi) ==
  IF lo > hi THEN <<>>
  ELSE IF \A i \in lo..hi : ~IsSpace(text[i]) THEN SubSeq(text, lo, hi)
  ELSE IF lo = hi
    THEN IF ~IsSpace(text[lo]) THEN <<text[lo]>>
         ELSE IF lo > 1 /\ IsSpace(text[lo - 1]) THEN <<>>
         ELSE <<"sp">>
  ELSE LET mid == (lo + hi) \div 2
       IN CollapseRange(text, lo, mid) \o CollapseRange(text, mid + 1, hi)

Collapse(text) == CollapseRange(text, 1, Len(text))

\* line 74 of chunk_text
Normalise(text) == strip(Collapse(text))

\* the while loop of chunk_text, advancing by the overlap only
RECURSIVE ChunkLoopShort(_, _, _)
ChunkLoopShort(text, lo, hi) ==
  IF lo > hi THEN <<>>
  ELSE IF lo = hi
    THEN LET start == lo * CHUNK_OVERLAP
             chunk == Slice(text, start, start + CHUNK_SIZE)
         IN IF strip(chunk) # <<>> THEN <<strip(chunk)>> ELSE <<>>
  ELSE LET mid == (lo + hi) \div 2
       IN ChunkLoopShort(text, lo, mid) \o ChunkLoopShort(text, mid + 1, hi)

chunk_text_short(text) ==
  LET t == Normalise(text)
  IN ChunkLoopShort(t, 0, (Len(t) + CHUNK_OVERLAP - 1) \div CHUNK_OVERLAP - 1)

\* the while loop of chunk_text: start takes the values 0, 450, 900, ... below
\* len(text); ChunkLoop gives the chunks appended for the starts numbered
\* lo..hi (start = 450 * number), in order
RECURSIVE ChunkLoop(_, _, _)
ChunkLoop(text, lo, hi) ==
  IF lo > hi THEN <<>>
  ELSE IF lo = hi
    THEN LET start == lo * (CHUNK_SIZE - CHUNK_OVERLAP)
             chunk == Slice(text, start, start + CHUNK_SIZE)
         IN IF strip(chunk) # <<>> THEN <<strip(chunk)>> ELSE <<>>
  ELSE LET mid == (lo + hi) \div 2
       IN ChunkLoop(text, lo, mid) \o ChunkLoop(text, mid + 1, hi)

chunk_text(text) ==
  LET t == Normalise(text)
      stride == CHUNK_SIZE - CHUNK_OVERLAP
  IN ChunkLoop(t, 0, (Len(t) + stride - 1) \div stride - 1)

\* ----------------------------------------------------------- extraction
\* content.decode("utf-8", errors="replace"): an invalid byte becomes U+FFFD
decode(bytes) ==
  LET out == [i \in 1..Len(bytes) |-> IF bytes[i] = "bad" THEN "rep" ELSE bytes[i]]
  IN SubSeq(out, 1, Len(bytes))

\* "\n".join(pages)
RECURSIVE JoinPages(_)
JoinPages(pages) ==
  IF pages = <<>> THEN <<>>
  ELSE IF Len(pages) = 1 THEN pages[1]
  ELSE pages[1] \o <<"nl">> \o JoinPages(Tail(pages))

\* extract_text_from_pdf: pages whose extract_text() is empty contribute nothing
extract_text_from_pdf(content) ==
  JoinPages(SelectSeq(content.pages, LAMBDA t : t # <<>>))

\* What an upload may carry. bytes is the raw body, pages what PdfReader's
\* extract_text() gives for it page by page.
Contents ==
  [ empty     |-> [bytes |-> <<>>, pages |-> <<>>],
    blank     |-> [bytes |-> <<"sp", "nl", "sp">>, pages |-> <<>>],
    short     |-> [bytes |-> <<"a", "nl", "sp", "bad">>, pages |-> <<>>],
    long      |-> [bytes |-> Rep("a", CHUNK_SIZE - CHUNK_OVERLAP + 1), pages |-> <<>>],
    huge      |-> [bytes |-> Rep("a", 2 * BATCH_SIZE * (CHUNK_SIZE - CHUNK_OVERLAP)) \o <<"a">>,
                   pages |-> <<>>],
    pdf_blank |-> [bytes |-> <<"a", "sp", "bad">>, pages |-> << <<>>, <<"sp">> >>],
    pdf_two   |-> [bytes |-> <<"a", "sp", "bad">>, pages |-> << <<"a">>, <<>>, <<"rep">> >>] ]

ContentNames == DOMAIN Contents

\* filename.endswith(".pdf")
IsPdfName(filename) == filename = "b.pdf"

\* lines 140-143 of ingest_document
ExtractText(content, content_type) ==
  IF content_type = "application/pdf"
  THEN extract_text_from_pdf(content)
  ELSE decode(content.bytes)

\* ------------------------------------------------------------ vector store
\* Embeddings are two-dimensional here; the norms are integers.
Vectors == {<<1, 0>>, <<3, 4>>}

Dot(u, v) == u[1] * v[1] + u[2] * v[2]

Norm(v) == CHOOSE n \in 0..10 : n * n = Dot(v, v)

\* cosine similarity in units of 1/10000, what round(point.score, 4) keeps
Score(q, v) == (10000 * Dot(q, v)) \div (Norm(q) * Norm(v))

NoFilter == [kind |-> "none", user_id |-> 0, filename |-> ""]

\* Filter(must=[FieldCondition(key="user_id", match=MatchValue(value=user_id))])
UserFilter(user_id) == [kind |-> "must", user_id |-> user_id, filename |-> ""]

\* Filter(must=[user_id condition, filename condition])
UserFileFilter(user_id, filename) == [kind |-> "must", user_id |-> user_id, filename |-> filename]

Matches(p, f) ==
  \/ f.kind = "none"
  \/ /\ p.user_id = f.user_id
     /\ (f.filename # "" => p.filename = f.filename)

\* the store ranks by score, highest first; equal scores are ordered by point id
Ranks(q, p, r) ==
  \/ Score(q, p.vector) > Score(q, r.vector)
  \/ Score(q, p.vector) = Score(q, r.vector) /\ p.id <= r.id

RECURSIVE TopOf(_, _, _)
TopOf(S, q, limit) ==
  IF limit <= 0 \/ S = {} THEN <<>>
  ELSE LET best == CHOOSE p \in S : \A r \in S : Ranks(q, p, r)
       IN <<best>> \o TopOf(S \ {best}, q, limit - 1)

\* client.query_points(query=q, query_filter=f, limit=limit): the filter
\* restricts the candidates, then the nearest limit of them are returned
query_points(store, q, f, limit) == TopOf({p \in store : Matches(p, f)}, q, limit)

\* client.delete(points_selector=f)
delete_points(store, f) == {p \in store : ~Matches(p, f)}

\* client.upsert(points=batch): a point replaces the stored point of the same id
upsert_points(store, batch) ==
  {p \in store : \A i \in 1..Len(batch) : batch[i].id # p.id} \cup {batch[i] : i \in 1..Len(batch)}

\* --------------------------------------------------------------- ingestion
\* What the embedding service answers for a question: a vector, or a failure.
EmbedFailure == [ok |-> FALSE, vector |-> <<0, 0>>]
EmbedResponses == {[ok |-> TRUE, vector |-> v] : v \in Vectors} \cup {EmbedFailure}

\* The embedding model is a fixed function of the text; for the chunks of the
\* bodies above, short chunks lie along one axis and long ones off it.
get_embedding(text) == IF Len(text) > CHUNK_OVERLAP THEN <<3, 4>> ELSE <<1, 0>>

\* the number of get_embedding calls the loop of lines 154-167 makes over n
\* chunks when emb[i] says whether the i-th call succeeds: it stops at a failure
EmbedCalls(emb, n, i) ==
  LET bad == {k \in i..n : ~emb[k]}
  IN IF bad = {} THEN n ELSE CHOOSE k \in bad : \A j \in bad : k <= j

\* the PointStruct of lines 157-166 for chunk number i (from 0), owned by nobody
OrphanPoint(id, vector, user_id, filename, i, chunk) ==
  [id |-> id, vector |-> vector, user_id |-> 0, filename |-> filename,
   chunk_index |-> i, text |-> chunk]

\* the PointStruct of lines 157-166 with the chunk number as the point id
NumberedPoint(id, vector, user_id, filename, i, chunk) ==
  [id |-> i + 1, vector |-> vector, user_id |-> user_id, filename |-> filename,
   chunk_index |-> i, text |-> chunk]

\* the PointStruct of lines 157-166 for chunk number i (from 0)
MakePoint(id, vector, user_id, filename, i, chunk) ==
  [id |-> id, vector |-> vector, user_id |-> user_id, filename |-> filename,
   chunk_index |-> i, text |-> chunk]

\* lines 173-174 as one transaction: every batch is stored, or none is
UpsertAllOrNothing(store, pts, i, ups, calls) ==
  LET nb == (Len(pts) - i + BATCH_SIZE - 1) \div BATCH_SIZE
      bad == {b \in 1..nb : ~ups[calls + b]}
  IN IF i >= Len(pts) THEN [store |-> store, calls |-> calls, ok |-> TRUE]
     ELSE IF bad = {}
          THEN [store |-> upsert_points(store, Slice(pts, i, Len(pts))),
                calls |-> calls + nb, ok |-> TRUE]
          ELSE [store |-> store, ok |-> FALSE,
                calls |-> calls + (CHOOSE b \in bad : \A c \in bad : b <= c)]

\* lines 173-174: upsert pts[i : i + BATCH_SIZE] batch by batch (i from 0);
\* ups[b] says whether the b-th upsert call succeeds; a failed call raises
RECURSIVE UpsertLoop(_, _, _, _, _)
UpsertLoop(store, pts, i, ups, calls) ==
  IF i >= Len(pts) THEN [store |-> store, calls |-> calls, ok |-> TRUE]
  ELSE IF ~ups[calls + 1] THEN [store |-> store, calls |-> calls + 1, ok |-> FALSE]
  ELSE UpsertLoop(upsert_points(store, Slice(pts, i, i + BATCH_SIZE)),
                  pts, i + BATCH_SIZE, ups, calls + 1)

\* lines 145-150 without either check
NothingRejected(text) == FALSE

\* lines 145-150: the two checks that raise ValueError
RejectsText(text) == strip(text) = <<>> \/ chunk_text(text) = <<>>

ContentTypes == {"application/pdf", "text/plain"}

\* lines 139-150 of ingest_document for every body and content type: the
\* extraction, the two checks and the chunks
Prepared ==
  [c \in ContentNames |-> [ct \in ContentTypes |->
     LET text == ExtractText(Contents[c], ct)
     IN [text |-> text, rejected |-> RejectsText(text), chunks |-> chunk_text(text)]]]

\* ingest_document. content names the body; emb and ups say which of the
\* successive calls to the embedding service and to the store succeed,
\* firstId is the first unused point id.
ingest_document(store, firstId, user_id, filename, content, content_type, emb, ups) ==
  LET pre == Prepared[content][content_type]
      failed(err, embeds) ==
        [error |-> err, store |-> store, count |-> 0, embeds |-> embeds, upserts |-> 0]
  IN IF pre.rejected THEN failed("ValueError", 0)
     ELSE LET chunks == pre.chunks
              n == Len(chunks)
              calls == EmbedCalls(emb, n, 1)
          IN IF n > 0 /\ ~emb[calls] THEN failed("UpstreamError", calls)
             ELSE LET pts == [i \in 1..n |->
                                MakePoint(firstId + i - 1, get_embedding(chunks[i]), user_id,
                                          filename, i - 1, chunks[i])]
                      up == UpsertLoop(store, pts, 0, ups, 0)
                  IN [error |-> IF up.ok THEN "none" ELSE "UpstreamError",
                      store |-> up.store, count |-> n,
                      embeds |-> n, upserts |-> up.calls]

\* --------------------------------------------------------------- retrieval
\* lines 195-205, with the test turned round: everyone but "user" is unfiltered
query_filter_lax(role, user_id) ==
  IF role # "user" THEN NoFilter ELSE UserFilter(user_id)

\* lines 195-205: the RBAC filter
query_filter(role, user_id) ==
  IF role = "admin" THEN NoFilter ELSE UserFilter(user_id)

\* lines 226-234
SourceOf(q, p) ==
  [filename |-> p.filename, chunk_index |-> p.chunk_index,
   owner_id |-> p.user_id, score |-> Score(q, p.vector)]

NoAnswer == [error |-> "UpstreamError", searched |-> FALSE, hits |-> 0, llm |-> FALSE,
             answer |-> "", sources |-> <<>>, chunks_searched |-> 0]

\* query_rag that searches unfiltered and drops foreign records afterwards
query_rag_postfilter(store, qresp, user_id, role, top_k, llm_ok) ==
  IF ~qresp.ok THEN NoAnswer
  ELSE LET q == qresp.vector
           found == query_points(store, q, NoFilter, top_k)
           results == SelectSeq(found, LAMBDA p : Matches(p, query_filter(role, user_id)))
       IN IF results = <<>>
          THEN [error |-> "none", searched |-> TRUE, hits |-> 0, llm |-> FALSE,
                answer |-> "no_documents", sources |-> <<>>, chunks_searched |-> 0]
          ELSE [error |-> IF llm_ok THEN "none" ELSE "UpstreamError",
                searched |-> TRUE, hits |-> Len(results), llm |-> TRUE,
                answer |-> IF llm_ok THEN "generated" ELSE "",
                sources |-> IF llm_ok THEN [i \in 1..Len(results) |-> SourceOf(q, results[i])] ELSE <<>>,
                chunks_searched |-> IF llm_ok THEN Len(results) ELSE 0]

\* query_rag that has no early return for an empty result
query_rag_always_generates(store, qresp, user_id, role, top_k, llm_ok) ==
  IF ~qresp.ok THEN NoAnswer
  ELSE LET q == qresp.vector
           results == query_points(store, q, query_filter(role, user_id), top_k)
       IN [error |-> IF llm_ok THEN "none" ELSE "UpstreamError",
           searched |-> TRUE, hits |-> Len(results), llm |-> TRUE,
           answer |-> IF llm_ok THEN "generated" ELSE "",
           sources |-> IF llm_ok THEN [i \in 1..Len(results) |-> SourceOf(q, results[i])] ELSE <<>>,
           chunks_searched |-> IF llm_ok THEN Len(results) ELSE 0]

\* query_rag. qresp is the embedding service's answer for the question,
\* llm_ok whether the generation call (if made) succeeds. searched, hits and
\* llm record which upstream calls were made: the search and what it
\* returned, and the generation call.
query_rag(store, qresp, user_id, role, top_k, llm_ok) ==
  IF ~qresp.ok THEN NoAnswer
  ELSE LET q == qresp.vector
           results == query_points(store, q, query_filter(role, user_id), top_k)
       IN IF results = <<>>
          THEN [error |-> "none", searched |-> TRUE, hits |-> 0, llm |-> FALSE,
                answer |-> "no_documents", sources |-> <<>>, chunks_searched |-> 0]
          ELSE [error |-> IF llm_ok THEN "none" ELSE "UpstreamError",
                searched |-> TRUE, hits |-> Len(results), llm |-> TRUE,
                answer |-> IF llm_ok THEN "generated" ELSE "",
                sources |-> IF llm_ok THEN [i \in 1..Len(results) |-> SourceOf(q, results[i])] ELSE <<>>,
                chunks_searched |-> IF llm_ok THEN Len(results) ELSE 0]

\* ---------------------------------------------------------------- deletion
\* lines 266-270 with the filename condition left out
delete_filter_owner_only(user_id, filename) == UserFilter(user_id)

\* lines 266-270: the conditions of delete_user_vectors; filename "" is None
delete_filter(user_id, filename) ==
  IF filename # "" THEN UserFileFilter(user_id, filename) ELSE UserFilter(user_id)

\* delete_user_vectors
delete_user_vectors(store, user_id, filename) ==
  delete_points(store, delete_filter(user_id, filename))

\* ------------------------------------------------------------- variables
VARIABLES
  collections,   \* names of the collections the vector store holds
  indexes,       \* payload fields of the collection that carry an index
  pc,            \* per process: where its lifespan startup stands
  users,         \* rows of the users table
  nextUserId,    \* AUTOINCREMENT counter of users.id
  tokens,        \* bearer tokens issued so far (all still unexpired)
  documents,     \* rows of the documents table
  nextDocId,     \* AUTOINCREMENT counter of documents.id
  points,        \* the records of the collection
  nextPointId,   \* stands for uuid4: the next unused point id
  last,          \* the request handled last and what it did
  ctext, cout, cpc   \* input, output and position of a lone chunk_text call

cvars == <<ctext, cout, cpc>>
dbvars == <<users, nextUserId, documents, nextDocId>>
storevars == <<collections, indexes, points, nextPointId>>
vars == <<collections, indexes, pc, users, nextUserId, tokens, documents,
          nextDocId, points, nextPointId, last, ctext, cout, cpc>>

\* ------------------------------------------------------------- database
\* create_user: None (here: the table unchanged) when the username is taken
create_user(rows, id, username, role) ==
  IF \E u \in rows : u.username = username THEN rows
  ELSE rows \cup {[id |-> id, username |-> username, role |-> role]}

\* delete_user: DELETE FROM users WHERE id = ? AND role != 'admin'
delete_user(rows, user_id) == {u \in rows : ~(u.id = user_id /\ u.role # "admin")}

\* record_document
record_document(rows, id, user_id, filename, chunk_count) ==
  rows \cup {[id |-> id, user_id |-> user_id, filename |-> filename, chunk_count |-> chunk_count]}

\* delete_document: the rows it selects; user_id 0 stands for None (both falsy)
SelectDocument(rows, doc_id, user_id) ==
  IF user_id # 0 THEN {d \in rows : d.id = doc_id /\ d.user_id = user_id}
  ELSE {d \in rows : d.id = doc_id}

\* delete_document: DELETE FROM documents WHERE id = ?, when a row was selected
delete_document(rows, doc_id, user_id) ==
  IF SelectDocument(rows, doc_id, user_id) # {} THEN {d \in rows : d.id # doc_id} ELSE rows

\* ------------------------------------------------------------------ bounds
NumProcs == 3
MaxUsers == 2
MaxDocs == 2
MaxTopK == 1

\* the largest number of chunks a body gives, and of upsert batches
ChunkBound ==
  LET lens == {Len(Prepared[c][ct].chunks) : c \in ContentNames, ct \in ContentTypes}
  IN CHOOSE n \in lens : \A m \in lens : m <= n

BatchBound == (ChunkBound + BATCH_SIZE - 1) \div BATCH_SIZE

Procs == 1..NumProcs
Usernames == {"admin", "bob"}
RoleStrings == {"admin", "user", "guest"}

\* the chunks a text/plain body gives, and the upsert batches they make
ChunksOf(content) == Len(Prepared[content]["text/plain"].chunks)
BatchesOf(content) == (ChunksOf(content) + BATCH_SIZE - 1) \div BATCH_SIZE

AllOk(n) == [i \in 1..n |-> TRUE]
FailAt(n, k) == [i \in 1..n |-> i # k]

\* The uploads tried: (filename, declared content type), the body, and which
\* upstream calls succeed.
UploadInput(filename, declared, content, emb, ups) ==
  [form |-> <<filename, declared>>, content |-> content, emb |-> emb, ups |-> ups]

UploadInputs ==
  {UploadInput("a.txt", "text/plain", c, AllOk(ChunkBound), AllOk(BatchBound)) :
     c \in {"empty", "blank", "short", "long"}}
  \cup {UploadInput("b.pdf", "application/pdf", c, AllOk(ChunkBound), AllOk(BatchBound)) :
     c \in {"pdf_blank", "pdf_two"}}
  \cup {UploadInput("c.bin", "application/octet-stream", "short",
                     AllOk(ChunkBound), AllOk(BatchBound))}
  \cup {UploadInput("a.txt", "text/plain", "long", FailAt(ChunkBound, k), AllOk(BatchBound)) :
     k \in {ChunksOf("long")}}
  \cup {UploadInput("a.txt", "text/plain", "long", AllOk(ChunkBound), FailAt(BatchBound, k)) :
     k \in 1..BatchesOf("long")}

\* The queries tried: the embedding of the question, top_k, and whether the
\* generation call succeeds.
QueryInputs ==
  {[qresp |-> [ok |-> TRUE, vector |-> <<1, 0>>], top_k |-> k, llm_ok |-> TRUE] :
     k \in 1..MaxTopK}
  \cup {[qresp |-> [ok |-> TRUE, vector |-> <<3, 4>>], top_k |-> TOP_K, llm_ok |-> FALSE],
        [qresp |-> EmbedFailure, top_k |-> TOP_K, llm_ok |-> TRUE]}

AllowedTypes == {"application/pdf", "text/plain", "text/markdown", "text/csv"}

\* filename.endswith((".txt", ".md", ".pdf", ".csv"))
HasAllowedSuffix(filename) == filename \in {"a.txt", "b.pdf"}

MAX_UPLOAD == 20971520

NoDelete == [kind |-> "nodelete", user_id |-> 0, filename |-> ""]

\* last: the operation, its status, the caller's identity and role (of a
\* request that got as far as the store), the owner
\* of the rows the request was about, the upload's filename and whether its
\* extracted text was blank, a count (chunks ingested, chunks searched,
\* vectors in total; for remove_user the chunks ingested by the upload of the
\* same owner that the request directly follows, else 0), the upstream calls
\* made, and the query's result.
NoLast ==
  [op |-> "none", status |-> 0, caller |-> 0, role |-> "", owner |-> 0,
   filename |-> "", blank |-> FALSE, count |-> 0, embeds |-> 0, upserts |-> 0,
   del |-> NoDelete, searched |-> FALSE, hits |-> 0, llm |-> FALSE, answer |-> "",
   sources |-> <<>>, top_k |-> 0, qresp |-> EmbedFailure]

\* init_db: CREATE TABLE IF NOT EXISTS, and the default admin if there is none
init_db(rows, id) == create_user(rows, id, "admin", "admin")

\* ----------------------------------------------------------------- startup
\* lifespan: init_db()
StartDb(p) ==
  /\ pc[p] = "down"
  /\ users' = init_db(users, nextUserId)
  /\ nextUserId' = IF users' # users THEN nextUserId + 1 ELSE nextUserId
  /\ pc' = [pc EXCEPT ![p] = "db"]
  /\ UNCHANGED <<storevars, tokens, documents, nextDocId, last, cvars>>

\* init_collection, lines 52-54: list the collections, test for COLLECTION
ListCollections(p) ==
  /\ pc[p] = "db"
  /\ pc' = [pc EXCEPT ![p] = IF COLLECTION \notin collections THEN "absent" ELSE "ready"]
  /\ UNCHANGED <<storevars, dbvars, tokens, last, cvars>>

\* init_collection, lines 55-58: create_collection; the store refuses a name
\* it already holds and the exception ends the startup
CreateCollection(p) ==
  /\ pc[p] = "absent"
  /\ IF COLLECTION \in collections
     THEN /\ pc' = [pc EXCEPT ![p] = "failed"]
          /\ UNCHANGED collections
     ELSE /\ collections' = collections \cup {COLLECTION}
          /\ pc' = [pc EXCEPT ![p] = "created"]
  /\ UNCHANGED <<indexes, points, nextPointId, dbvars, tokens, last, cvars>>

\* init_collection, lines 60-64: create_payload_index on user_id
CreateIndex(p) ==
  /\ pc[p] = "created"
  /\ indexes' = indexes \cup {"user_id"}
  /\ pc' = [pc EXCEPT ![p] = "ready"]
  /\ UNCHANGED <<collections, points, nextPointId, dbvars, tokens, last, cvars>>

\* a process that is up or has failed to start is stopped and started again
Restart(p) ==
  /\ pc[p] \in {"ready", "failed"}
  /\ pc' = [pc EXCEPT ![p] = "down"]
  /\ UNCHANGED <<storevars, dbvars, tokens, last, cvars>>

\* ---------------------------------------------------------------- handlers
Serving == {p \in Procs : pc[p] = "ready"} # {}

\* POST /api/auth/login; pwOk is the outcome of pwd_ctx.verify
Login(username, pwOk) ==
  /\ Serving
  /\ LET rows == {u \in users : u.username = username}
     IN IF rows # {} /\ pwOk
        THEN LET u == CHOOSE u \in rows : TRUE
             IN /\ tokens' = tokens \cup {[user_id |-> u.id, role |-> u.role]}
                /\ last' = [NoLast EXCEPT !.op = "login", !.status = 200]
        ELSE /\ tokens' = tokens
             /\ last' = [NoLast EXCEPT !.op = "login", !.status = 401]
  /\ UNCHANGED <<storevars, pc, dbvars, cvars>>

\* POST /api/auth/register
Register(t, username, role) ==
  /\ Serving
  /\ LET status == IF t.role # "admin" THEN 403
                   ELSE IF role \notin {"user", "admin"} THEN 400
                   ELSE IF create_user(users, nextUserId, username, role) = users THEN 409
                   ELSE 200
     IN /\ status = 200 => nextUserId <= MaxUsers
        /\ users' = IF status = 200 THEN create_user(users, nextUserId, username, role) ELSE users
        /\ nextUserId' = IF status = 200 THEN nextUserId + 1 ELSE nextUserId
        /\ last' = [NoLast EXCEPT !.op = "register", !.status = status]
  /\ UNCHANGED <<storevars, pc, tokens, documents, nextDocId, cvars>>

\* DELETE /api/users/{user_id}
RemoveUser(t, user_id) ==
  /\ Serving
  /\ IF t.role # "admin"
     THEN /\ last' = [NoLast EXCEPT !.op = "remove_user", !.status = 403]
          /\ UNCHANGED <<points, users>>
     ELSE /\ points' = delete_user_vectors(points, user_id, "")
          /\ users' = delete_user(users, user_id)
          /\ last' = [NoLast EXCEPT !.op = "remove_user",
                                    !.status = IF users' = users THEN 404 ELSE 200,
                                    !.caller = t.user_id, !.role = t.role,
                                    !.owner = user_id,
                                    !.count = IF last.op = "upload" /\ last.status = 200
                                                 /\ last.caller = user_id
                                              THEN last.count ELSE 0,
                                    !.del = delete_filter(user_id, "")]
  /\ UNCHANGED <<collections, indexes, nextPointId, pc, tokens, nextUserId,
                 documents, nextDocId, cvars>>

\* POST /api/documents/upload
UploadDocument(t, form, content, emb, ups) ==
  /\ Serving
  /\ LET filename == form[1]
         content_type == IF IsPdfName(filename) THEN "application/pdf" ELSE "text/plain"
         refused == \/ form[2] \notin AllowedTypes /\ ~HasAllowedSuffix(filename)
                    \/ Len(Contents[content].bytes) > MAX_UPLOAD
         r == ingest_document(points, nextPointId, t.user_id, filename,
                              content, content_type, emb, ups)
         status == IF refused \/ r.error = "ValueError" THEN 400
                   ELSE IF r.error # "none" THEN 500
                   ELSE 200
     IN /\ status = 200 => nextDocId <= MaxDocs
        /\ points' = IF refused THEN points ELSE r.store
        /\ nextPointId' = IF points' # points THEN nextPointId + r.count ELSE nextPointId
        /\ documents' = IF status = 200
                        THEN record_document(documents, nextDocId, t.user_id, filename, r.count)
                        ELSE documents
        /\ nextDocId' = IF status = 200 THEN nextDocId + 1 ELSE nextDocId
        /\ last' = [NoLast EXCEPT !.op = "upload", !.status = status,
                                  !.caller = IF status = 200 \/ points' # points
                                             THEN t.user_id ELSE 0,
                                  !.role = IF status = 200 \/ points' # points
                                           THEN t.role ELSE "",
                                  !.filename = filename,
                                  !.blank = strip(Prepared[content][content_type].text) = <<>>,
                                  !.count = IF status = 200 THEN r.count ELSE 0,
                                  !.embeds = IF refused THEN 0 ELSE r.embeds,
                                  !.upserts = IF refused THEN 0 ELSE r.upserts]
  /\ UNCHANGED <<collections, indexes, pc, tokens, users, nextUserId, cvars>>

\* DELETE /api/documents/{doc_id}
RemoveDocument(t, doc_id) ==
  /\ Serving
  /\ LET user_id == IF t.role = "admin" THEN 0 ELSE t.user_id
         rows == SelectDocument(documents, doc_id, user_id)
     IN IF rows = {}
        THEN /\ last' = [NoLast EXCEPT !.op = "remove_document", !.status = 404]
             /\ UNCHANGED <<documents, points>>
        ELSE LET row == CHOOSE d \in rows : TRUE
             IN /\ documents' = delete_document(documents, doc_id, user_id)
                /\ points' = delete_user_vectors(points, t.user_id, row.filename)
                /\ last' = [NoLast EXCEPT !.op = "remove_document", !.status = 200,
                                          !.caller = t.user_id, !.role = t.role,
                                          !.owner = row.user_id,
                                          !.filename = row.filename,
                                          !.del = delete_filter(t.user_id, row.filename)]
  /\ UNCHANGED <<collections, indexes, nextPointId, pc, tokens, users, nextUserId,
                 nextDocId, cvars>>

\* POST /api/query
RagQuery(t, qresp, top_k, llm_ok) ==
  /\ Serving
  /\ LET r == query_rag(points, qresp, t.user_id, t.role, top_k, llm_ok)
     IN last' = [NoLast EXCEPT !.op = "query",
                               !.status = IF r.error = "none" THEN 200 ELSE 500,
                               !.caller = IF r.searched THEN t.user_id ELSE 0,
                               !.role = IF r.searched THEN t.role ELSE "",
                               !.top_k = top_k, !.qresp = qresp,
                               !.embeds = 1, !.searched = r.searched, !.hits = r.hits,
                               !.llm = r.llm, !.answer = r.answer,
                               !.sources = r.sources, !.count = r.chunks_searched]
  /\ UNCHANGED <<storevars, pc, dbvars, tokens, cvars>>

\* GET /api/stats, with get_collection_stats
SystemStats(t) ==
  /\ Serving
  /\ last' = [NoLast EXCEPT !.op = "stats",
                            !.status = IF t.role # "admin" THEN 403 ELSE 200,
                            !.count = IF t.role # "admin" THEN 0
                                      ELSE IF COLLECTION \in collections
                                      THEN Cardinality(points) ELSE 0]
  /\ UNCHANGED <<storevars, pc, dbvars, tokens, cvars>>

\* ------------------------------------------------------------ specifications
Idle == /\ ctext = <<>>
        /\ cout = <<>>
        /\ cpc = "idle"

\* Nothing has started: no table rows, no collection.
InitCold ==
  /\ collections = {}
  /\ indexes = {}
  /\ pc = [p \in Procs |-> "down"]
  /\ users = {}
  /\ nextUserId = 1
  /\ tokens = {}
  /\ documents = {}
  /\ nextDocId = 1
  /\ points = {}
  /\ nextPointId = 1
  /\ last = NoLast
  /\ Idle

\* The processes have come up one after the other.
Init ==
  /\ collections = {COLLECTION}
  /\ indexes = {"user_id"}
  /\ pc = [p \in Procs |-> "ready"]
  /\ users = init_db({}, 1)
  /\ nextUserId = 2
  /\ tokens = {}
  /\ documents = {}
  /\ nextDocId = 1
  /\ points = {}
  /\ nextPointId = 1
  /\ last = NoLast
  /\ Idle

Startup ==
  \E p \in Procs :
    \/ StartDb(p)
    \/ ListCollections(p)
    \/ CreateCollection(p)
    \/ CreateIndex(p)
    \/ Restart(p)

SpecInit == InitCold /\ [][Startup]_vars

Next ==
  \/ \E username \in Usernames, pwOk \in BOOLEAN : Login(username, pwOk)
  \/ \E t \in tokens, username \in Usernames, role \in RoleStrings : Register(t, username, role)
  \/ \E t \in tokens, user_id \in 1..MaxUsers : RemoveUser(t, user_id)
  \/ \E t \in tokens, u \in UploadInputs :
       UploadDocument(t, u.form, u.content, u.emb, u.ups)
  \/ \E t \in tokens, doc_id \in 1..MaxDocs : RemoveDocument(t, doc_id)
  \/ \E t \in tokens, i \in QueryInputs : RagQuery(t, i.qresp, i.top_k, i.llm_ok)
  \/ \E t \in tokens : SystemStats(t)

Spec == Init /\ [][Next]_vars

\* ------------------------------------------------------------------ claims
OwnerIds == 1..MaxUsers
TopKs == {1, 2, TOP_K}
OwnedBy(store, user_id) == {p \in store : p.user_id = user_id}
Asked(v) == [ok |-> TRUE, vector |-> v]

\* C1: RBAC containment. In every reachable store, for every caller and every
\* role other than "admin" (an unrecognised role included) the search filter
\* is the equality on the caller's id and every returned source has owner_id
\* equal to the caller's id; the filter is absent only for role "admin". The
\* same holds of the sources the last query handled has returned.
C1_RbacContainment ==
  /\ \A role \in RoleStrings, uid \in OwnerIds :
       /\ (query_filter(role, uid) = NoFilter) <=> (role = "admin")
       /\ role # "admin" => query_filter(role, uid) = UserFilter(uid)
  /\ \A role \in RoleStrings \ {"admin"}, uid \in OwnerIds, v \in Vectors, k \in TopKs :
       LET r == query_rag(points, Asked(v), uid, role, k, TRUE)
       IN \A j \in 1..Len(r.sources) : r.sources[j].owner_id = uid
  /\ (last.op = "query" /\ last.role # "admin") =>
       \A j \in 1..Len(last.sources) : last.sources[j].owner_id = last.caller

C1_Witness ==
  /\ last.op = "query"
  /\ last.status = 200
  /\ last.role = "user"
  /\ last.sources # <<>>
  /\ \E p \in points : p.user_id # last.caller

\* C2: every delete issued by remove_document or remove_user is scoped to the
\* owner of the affected rows (the document's owner, the removed user), not
\* to the caller: exactly that owner's matching records go.
C2_DeleteScopedToAffectedOwner ==
  [][(last'.op \in {"remove_document", "remove_user"} /\ last'.del # NoDelete) =>
       /\ last'.del.user_id = last'.owner
       /\ points' = {p \in points : ~(/\ p.user_id = last'.owner
                                      /\ (last'.filename # "" => p.filename = last'.filename))}
    ]_vars

\* C3: non-interference. For a non-admin caller the result of query_rag on
\* the store equals its result on the caller's own records alone, and it has
\* min(top_k, number of own records) sources: the records of other owners
\* neither displace nor reorder the caller's.
C3_NonInterference ==
  \A role \in RoleStrings \ {"admin"}, uid \in OwnerIds, v \in Vectors, k \in TopKs :
    LET own == OwnedBy(points, uid)
        r == query_rag(points, Asked(v), uid, role, k, TRUE)
    IN /\ r = query_rag(own, Asked(v), uid, role, k, TRUE)
       /\ Len(r.sources) = Min(k, Cardinality(own))
       /\ r.chunks_searched = Min(k, Cardinality(own))

C3_Witness ==
  /\ last.op = "query"
  /\ last.status = 200
  /\ last.role = "user"
  /\ Len(last.sources) = last.top_k
  /\ Cardinality(OwnedBy(points, last.caller)) > last.top_k
  /\ \E p \in points :
       /\ p.user_id # last.caller
       /\ Score(last.qresp.vector, p.vector) >= last.sources[1].score
       /\ \A r \in OwnedBy(points, last.caller) : p.id < r.id

\* C4: a record enters the store only in an upload, with a fresh id and with
\* the identity of the uploader's token as its owner; a record already in the
\* store is never altered, and leaves it only, whole, in a delete whose filter
\* it matches.
C4_OwnerFixedAtCreation ==
  [][/\ \A p \in points' \ points :
          /\ last'.op = "upload"
          /\ p.user_id = last'.caller
          /\ [user_id |-> last'.caller, role |-> last'.role] \in tokens
          /\ \A r \in points : r.id # p.id
     /\ \A p \in points \ points' :
          /\ last'.op \in {"remove_document", "remove_user"}
          /\ Matches(p, last'.del)
          /\ \A r \in points' : r.id # p.id
    ]_vars

C4_Witness ==
  /\ last.op = "upload"
  /\ last.status = 200
  /\ Cardinality(OwnedBy(points, last.caller)) = last.count
  /\ \E p \in points : p.user_id # last.caller

\* C5: a query whose filtered search returns nothing answers with the fixed
\* no-documents answer, no sources and chunks_searched = 0, and does not call
\* the generation client; the generation client is called only after a search
\* that returned at least one record.
C5_NoGenerationWithoutHits ==
  last.op = "query" =>
    LET results == query_points(points, last.qresp.vector,
                                query_filter(last.role, last.caller), last.top_k)
    IN /\ (last.searched /\ results = <<>>) =>
            /\ last.status = 200
            /\ last.answer = "no_documents"
            /\ last.sources = <<>>
            /\ last.count = 0
            /\ ~last.llm
       /\ last.llm => (last.searched /\ results # <<>>)

C5_Witness ==
  /\ last.op = "query"
  /\ last.searched
  /\ last.hits = 0
  /\ last.answer = "no_documents"
  /\ ~last.llm
  /\ points # {}

\* C6: an upload whose extracted text is empty or whitespace-only is answered
\* 400 before any embedding or store call, and leaves the store and the
\* documents table as they were.
C6_BlankRejected ==
  [][(last'.op = "upload" /\ last'.blank) =>
       /\ last'.status = 400
       /\ last'.embeds = 0
       /\ last'.upserts = 0
       /\ points' = points
       /\ documents' = documents
    ]_vars

C6_Witness ==
  /\ last.op = "upload"
  /\ last.blank
  /\ last.status = 400
  /\ last.filename = "b.pdf"
  /\ points # {}

\* C7: remove_document deletes exactly the records of (caller, filename), the
\* arguments it gives delete_user_vectors, and no other; every record the
\* caller keeps is still returned to the caller by a query afterwards.
C7_DeleteByFilename ==
  [][(last'.op = "remove_document" /\ last'.status = 200) =>
       LET o == last'.caller
           f == last'.filename
       IN /\ f # ""
          /\ points' = {p \in points : ~(p.user_id = o /\ p.filename = f)}
          /\ \A p \in points : (p.user_id = o /\ p.filename # f) =>
               \A v \in Vectors :
                 LET r == query_rag(points', Asked(v), o, "user", Cardinality(points) + 1, TRUE)
                 IN \E j \in 1..Len(r.sources) : r.sources[j] = SourceOf(v, p)
    ]_vars

C7_Witness ==
  /\ last.op = "remove_document"
  /\ last.status = 200
  /\ last.owner = last.caller
  /\ Cardinality(points) < nextPointId - 1
  /\ \E p \in points : p.user_id = last.caller /\ p.filename # last.filename

\* C8 (as stated): an upload of N chunks by X directly followed by the removal
\* of X, which deletes all of X's records, lowers the number of points by
\* exactly N.
C8_Original ==
  [][(/\ last.op = "upload" /\ last.status = 200
      /\ last'.op = "remove_user" /\ last'.status = 200
      /\ last'.owner = last.caller) =>
       Cardinality(points') = Cardinality(points) - last.count
    ]_vars

\* C8 (amended): an upload of N chunks by X directly followed by the delete of
\* all of X's records lowers the number of points by the number of records X
\* holds after the upload, which is N plus what X held before it: by exactly N
\* when X held no record before the upload.
C8_DeleteAllAfterIngest ==
  [][(/\ last.op = "upload" /\ last.status = 200
      /\ last'.op = "remove_user" /\ last'.del # NoDelete
      /\ last'.owner = last.caller) =>
       LET own == OwnedBy(points, last.caller)
           fresh == {p \in own : p.id >= nextPointId - last.count}
       IN /\ Cardinality(fresh) = last.count
          /\ Cardinality(points') = Cardinality(points) - Cardinality(own)
          /\ (own = fresh => Cardinality(points') = Cardinality(points) - last.count)
          /\ OwnedBy(points', last.caller) = {}
    ]_vars

C8_Witness ==
  /\ last.op = "remove_user"
  /\ last.status = 200
  /\ last.count = 2
  /\ points # {}
  /\ OwnedBy(points, last.owner) = {}

\* C10: init_collection is idempotent under any interleaving of startups: no
\* invocation fails, and once no startup is under way and a process is up the
\* collection exists and carries the user_id index.
C10_InitIdempotent ==
  /\ \A p \in Procs : pc[p] # "failed"
  /\ ((\A p \in Procs : pc[p] \in {"down", "ready"}) /\ (\E p \in Procs : pc[p] = "ready")) =>
       (collections = {COLLECTION} /\ "user_id" \in indexes)

\* ------------------------------------------------- the chunker on its own
\* lead blanks, n ordinary characters, optionally a run of whitespace after
\* the first character, optionally trailing whitespace
MakeText(lead, n, gap, trail) ==
  Rep("sp", lead)
  \o (IF n = 0 THEN <<>> ELSE <<"a">>)
  \o (IF n >= 2 THEN Rep("nl", gap) \o Rep("a", n - 1) ELSE <<>>)
  \o Rep("sp", trail)

ChunkInputs ==
  {MakeText(lead, n, gap, trail) :
     lead \in {0, 1}, n \in 0..MaxTextLen, gap \in {0, 2}, trail \in {0, 1}}

ChunkInit ==
  /\ collections = {}
  /\ indexes = {}
  /\ pc = [p \in Procs |-> "down"]
  /\ users = {}
  /\ nextUserId = 1
  /\ tokens = {}
  /\ documents = {}
  /\ nextDocId = 1
  /\ points = {}
  /\ nextPointId = 1
  /\ last = NoLast
  /\ ctext \in ChunkInputs
  /\ cout = <<>>
  /\ cpc = "input"

ChunkCall ==
  /\ cpc = "input"
  /\ cout' = chunk_text(ctext)
  /\ cpc' = "done"
  /\ UNCHANGED <<ctext, storevars, pc, dbvars, tokens, last>>

ChunkNext == ChunkCall

SpecChunk == ChunkInit /\ [][ChunkNext]_vars

\* C9 (as stated): a normalised length of 1..499 gives exactly one chunk, and
\* empty input gives the empty sequence.
C9_Original ==
  cpc = "done" =>
    /\ (Len(Normalise(ctext)) >= 1 /\ Len(Normalise(ctext)) < CHUNK_SIZE => Len(cout) = 1)
    /\ (ctext = <<>> => cout = <<>>)

\* C9 (amended): a normalised length of 1..450 (the stride, 500 - 50) gives
\* exactly one chunk, the whole normalised text; a normalised length of
\* 451..499 gives two chunks, the second starting at offset 450; input that
\* is empty or normalises to the empty string gives the empty sequence.
C9_OneChunkUpToStride ==
  cpc = "done" =>
    LET t == Normalise(ctext)
        stride == CHUNK_SIZE - CHUNK_OVERLAP
    IN /\ (Len(t) >= 1 /\ Len(t) <= stride => cout = <<t>>)
       /\ (Len(t) > stride /\ Len(t) < CHUNK_SIZE =>
             cout = <<t, strip(Slice(t, stride, Len(t)))>>)
       /\ (Len(t) = 0 => cout = <<>>)

C9_Witness ==
  /\ cpc = "done"
  /\ Len(Normalise(ctext)) = CHUNK_SIZE - CHUNK_OVERLAP
  /\ Len(ctext) > Len(Normalise(ctext))
  /\ Len(cout) = 1

\* ------------------------------------------------- ingestion, batch by batch
\* The service is up, the administrator has registered bob and both hold a
\* token; nothing has been uploaded yet, or one of them has uploaded one
\* document whose chunks fit a single batch.
Uploaders == {[user_id |-> 1, role |-> "admin"], [user_id |-> 2, role |-> "user"]}

PriorUploads ==
  {[documents |-> {}, points |-> {}, count |-> 0]}
  \cup {LET content_type == IF IsPdfName(f[1]) THEN "application/pdf" ELSE "text/plain"
            r == ingest_document({}, 1, t.user_id, f[1], f[2], content_type,
                                 AllOk(ChunkBound), AllOk(BatchBound))
        IN [documents |-> record_document({}, 1, t.user_id, f[1], r.count),
            points |-> r.store, count |-> r.count] :
        t \in Uploaders,
        f \in {<<"a.txt", "short">>, <<"a.txt", "long">>, <<"b.pdf", "pdf_two">>}}

\* the uploads tried: bodies of one, two and 201 chunks, with every embedding
\* and every upsert succeeding, or one of them failing
IngestInputs ==
  {UploadInput("a.txt", "text/plain", c, AllOk(ChunkBound), AllOk(BatchBound)) :
     c \in {"blank", "short", "long", "huge"}}
  \cup {UploadInput("b.pdf", "application/pdf", "pdf_two", AllOk(ChunkBound), AllOk(BatchBound))}
  \cup {UploadInput("a.txt", "text/plain", c, FailAt(ChunkBound, k), AllOk(BatchBound)) :
          c \in {"short", "long", "huge"},
          k \in {1, ChunksOf("long"), BATCH_SIZE, BATCH_SIZE + 1, ChunksOf("huge")}}
  \cup {UploadInput("a.txt", "text/plain", c, AllOk(ChunkBound), FailAt(BatchBound, k)) :
          c \in {"short", "long", "huge"}, k \in 1..BatchBound}

IngestInit ==
  /\ collections = {COLLECTION}
  /\ indexes = {"user_id"}
  /\ pc = [p \in Procs |-> "ready"]
  /\ users = create_user(init_db({}, 1), 2, "bob", "user")
  /\ nextUserId = 3
  /\ tokens = Uploaders
  /\ \E prior \in PriorUploads :
        /\ documents = prior.documents
        /\ nextDocId = Cardinality(prior.documents) + 1
        /\ points = prior.points
        /\ nextPointId = prior.count + 1
  /\ last = NoLast
  /\ Idle

IngestCall ==
  /\ last.op = "none"
  /\ \E t \in tokens, u \in IngestInputs :
        UploadDocument(t, u.form, u.content, u.emb, u.ups)

IngestNext == IngestCall

SpecIngest == IngestInit /\ [][IngestNext]_vars

\* C11: an upload keeps what the store held; the records it adds are the
\* first chunks of the document in order, under the caller's id and the
\* filename. On success the returned count is the number of records added.
\* On an upstream failure nothing is undone: the batches of 100 upserted
\* before the failing call stay (none when an embedding call failed, as every
\* embedding precedes the first upsert). A rejected body adds nothing.
C11_NoRollback ==
  [][last'.op = "upload" =>
       LET new == points' \ points
           kept == Cardinality(new)
       IN /\ points \subseteq points'
          /\ {p.chunk_index : p \in new} = 0..(kept - 1)
          /\ \A p \in new : p.user_id = last'.caller /\ p.filename = last'.filename
          /\ last'.status = 200 => kept = last'.count /\ kept > 0
          /\ last'.status = 500 =>
                /\ last'.count = 0
                /\ kept = IF last'.upserts = 0 THEN 0
                          ELSE BATCH_SIZE * (last'.upserts - 1)
          /\ last'.status = 400 => kept = 0]_vars

\* the third upsert of a 201-chunk document failed: 200 records stay, and no
\* document row was written for them
C11_Witness ==
  /\ last.op = "upload"
  /\ last.status = 500
  /\ last.upserts = BatchesOf("huge")
  /\ Cardinality({p \in points : p.chunk_index >= BATCH_SIZE}) = BATCH_SIZE
  /\ \A d \in documents : d.chunk_count < BATCH_SIZE

\* ------------------------------------------------------- rejected removals
\* C12: a remove_user request answered with 404 (the id does not exist or
\* belongs to an administrator) leaves the vector store as it was.
C12_RejectedRemoveKeepsStore ==
  [][last'.op = "remove_user" /\ last'.status = 404 => points' = points]_vars

====
